---- MODULE Spec2Model ----
(***************************************************************************)
(* The ABI power scheduler of ItyFuzz (src/src/evm/scheduler.rs): the      *)
(* branch-coverage ledger kept by on_add, the round-robin next(), the      *)
(* artifact admission path, the on_remove and on_replace handlers, the     *)
(* power score of a corpus entry and the loading of the score file.        *)
(*                                                                         *)
(* Conventions.                                                            *)
(*  - A CorpusId is opaque in the source; the model names the ids          *)
(*    1, 2, ... in insertion order, so corpus[id] is the testcase of id.   *)
(*  - Option<T> is a set with at most one element, except Option<CorpusId> *)
(*    (parent id, current selection), where NoId stands for None.          *)
(*  - A usize is kept as its residue of least magnitude modulo 2^64: a     *)
(*    non-negative integer stands for itself and -k stands for 2^64 - k.   *)
(*    Wrapping arithmetic on values near 0 and near usize::MAX is then     *)
(*    plain integer arithmetic.                                            *)
(*  - Strings the code takes apart are sequences of one-character strings. *)
(***************************************************************************)
EXTENDS Integers, Sequences, FiniteSets, TLC

\* ------------------------------------------------------------------ bounds
MaxEntries == 3
MaxEvents == 2
MaxReadmitEntries == 2

\* Entries admitted where inputs of every kind meet branch events.
MaxAbiEntries == 2

\* Lines of a score file.
MaxScoreLines == 2
MaxFairEntries == 3
MaxArgs == 2

\* ------------------------------------------------------------- basic values
NoId == 0

\* No swap simulated: no reserves computed, nothing stored at slot 8.
NoPair == [new_reserve_0 |-> <<>>, new_reserve_1 |-> <<>>, slot |-> {}]

Branches == {<<"0xAA", 10>>, <<"0xAA", 20>>}

Events == {<<b[1], b[2], br>> : b \in Branches, br \in BOOLEAN}

RECURSIVE SeqsUpTo(_, _)
SeqsUpTo(S, n) ==
    IF n = 0 THEN {<<>>}
    ELSE LET shorter == SeqsUpTo(S, n - 1)
         IN  shorter \cup {Append(s, x) : s \in {t \in shorter : Len(t) = n - 1}, x \in S}

EventSeqs == SeqsUpTo(Events, MaxEvents)

Put(f, k, v) == [x \in DOMAIN f \cup {k} |-> IF x = k THEN v ELSE f[x]]

Remove(f, k) == [x \in DOMAIN f \ {k} |-> f[x]]

EmptyMap == [x \in {} |-> x]

\* ------------------------------------------------ BranchCoveredStatus (44-72)
\* Faulty merges: one that never reports the completion, one that never
\* reaches Both from True, one that stores the last direction seen.
merge_unflagged(self, branch_status_) ==
    CASE self = "Both"  -> <<"Both", FALSE>>
      [] self = "True"  -> IF branch_status_ THEN <<"True", FALSE>> ELSE <<"Both", FALSE>>
      [] self = "False" -> IF branch_status_ THEN <<"Both", FALSE>> ELSE <<"False", FALSE>>

merge_sticky(self, branch_status_) ==
    CASE self = "Both"  -> <<"Both", FALSE>>
      [] self = "True"  -> <<"True", FALSE>>
      [] self = "False" -> IF branch_status_ THEN <<"Both", TRUE>> ELSE <<"False", FALSE>>

merge_overwrite(self, branch_status_) ==
    CASE self = "Both"  -> <<"Both", FALSE>>
      [] self = "True"  -> IF branch_status_ THEN <<"True", FALSE>> ELSE <<"False", FALSE>>
      [] self = "False" -> IF branch_status_ THEN <<"True", FALSE>> ELSE <<"False", FALSE>>

merge(self, branch_status_) ==
    CASE self = "Both"  -> <<"Both", FALSE>>
      [] self = "True"  -> IF branch_status_ THEN <<"True", FALSE>> ELSE <<"Both", TRUE>>
      [] self = "False" -> IF branch_status_ THEN <<"Both", TRUE>> ELSE <<"False", FALSE>>

from(branch_status_) == IF branch_status_ THEN "True" ELSE "False"

\* --------------------------------------------------- the host's configuration
\* FUNCTION_SIG: selector -> signature text. "sel_x" is a selector it lacks.
FUNCTION_SIG ==
    [sel \in {"sel_f", "sel_g"} |->
        IF sel = "sel_f" THEN <<"f", "(", "u", ",", "a", ")">>
                         ELSE <<"g", "(", ")">>]

\* ADDR_CODE_ADDR: proxy address -> code address.
ADDR_CODE_ADDR == [a \in {"0xP"} |-> "0xAA"]

\* The scheduler's score table, keyed by (address, slug).
sig_to_score ==
    [k \in {<<"0xAA", <<"f", "@", "2">>>>, <<"0xAA", <<"g", "@", "0">>>>} |->
        IF k[2][1] = "f" THEN 250 ELSE 0]

\* The inputs a testcase can carry: two step inputs (what a step input holds
\* as ABI data is not a call: one whose data reads as f, one whose data reads as
\* no known function), an input without ABI data
\* (a borrow), a call of f through the proxy, a call of g, a call of g on a
\* contract the score table does not list, and a call whose selector
\* FUNCTION_SIG does not know.
Inputs ==
    { [contract |-> "0xP",  data_abi |-> {"sel_f"}, step |-> TRUE],
      [contract |-> "0xAA", data_abi |-> {"sel_x"}, step |-> TRUE],
      [contract |-> "0xAA", data_abi |-> {},        step |-> FALSE],
      [contract |-> "0xP",  data_abi |-> {"sel_f"}, step |-> FALSE],
      [contract |-> "0xAA", data_abi |-> {"sel_g"}, step |-> FALSE],
      [contract |-> "0xBB", data_abi |-> {"sel_g"}, step |-> FALSE],
      [contract |-> "0xAA", data_abi |-> {"sel_x"}, step |-> FALSE] }

\* ------------------------------------------------ add_abi_metadata (160-200)
RECURSIVE ToDecimal(_)
ToDecimal(n) ==
    LET digit == <<"0", "1", "2", "3", "4", "5", "6", "7", "8", "9">>[(n % 10) + 1]
    IN  IF n < 10 THEN <<digit>> ELSE Append(ToDecimal(n \div 10), digit)

matches_count(s, c) == Cardinality({i \in 1..Len(s) : s[i] = c})

contains_unit(s) == \E i \in 1..(Len(s) - 1) : s[i] = "(" /\ s[i + 1] = ")"

split_first(s, c) ==
    LET hits == {i \in 1..Len(s) : s[i] = c}
    IN  IF hits = {} THEN s
        ELSE SubSeq(s, 1, (CHOOSE i \in hits : \A j \in hits : i <= j) - 1)

tc_func_slug(tc_func_name) ==
    LET amount_args == matches_count(tc_func_name, ",")
                       + (IF contains_unit(tc_func_name) THEN 0 ELSE 1)
        name == split_first(tc_func_name, "(")
    IN  name \o <<"@">> \o ToDecimal(amount_args)

\* [ok, testcase]: ok is FALSE when the selector lookup panics.
\* (add_abi_metadata_unredirected: the same with the address taken as it is;
\* add_abi_metadata_lenient: the same with weight 1 for an unknown selector.)
add_abi_metadata_unredirected(testcase) ==
    LET input == testcase.input
        address == input.contract
    IN  IF input.data_abi = {} THEN
            [ok |-> TRUE, testcase |-> [testcase EXCEPT !.lines = {1}]]
        ELSE
            LET tc_func == CHOOSE f \in input.data_abi : TRUE
            IN  IF tc_func \notin DOMAIN FUNCTION_SIG THEN
                    [ok |-> FALSE, testcase |-> testcase]
                ELSE
                    LET slug == tc_func_slug(FUNCTION_SIG[tc_func])
                        key == <<address, slug>>
                        score == IF key \in DOMAIN sig_to_score THEN sig_to_score[key] ELSE 1
                    IN  [ok |-> TRUE, testcase |-> [testcase EXCEPT !.lines = {score}]]

add_abi_metadata_lenient(testcase) ==
    LET input == testcase.input
        address == input.contract
    IN  IF input.data_abi = {} THEN
            [ok |-> TRUE, testcase |-> [testcase EXCEPT !.lines = {1}]]
        ELSE
            LET tc_func == CHOOSE f \in input.data_abi : TRUE
            IN  IF tc_func \notin DOMAIN FUNCTION_SIG THEN
                    [ok |-> TRUE, testcase |-> [testcase EXCEPT !.lines = {1}]]
                ELSE
                    LET slug == tc_func_slug(FUNCTION_SIG[tc_func])
                        real_addr == IF address \in DOMAIN ADDR_CODE_ADDR
                                     THEN ADDR_CODE_ADDR[address] ELSE address
                        key == <<real_addr, slug>>
                        score == IF key \in DOMAIN sig_to_score THEN sig_to_score[key] ELSE 1
                    IN  [ok |-> TRUE, testcase |-> [testcase EXCEPT !.lines = {score}]]

add_abi_metadata(testcase) ==
    LET input == testcase.input
        address == input.contract
    IN  IF input.data_abi = {} THEN
            [ok |-> TRUE, testcase |-> [testcase EXCEPT !.lines = {1}]]
        ELSE
            LET tc_func == CHOOSE f \in input.data_abi : TRUE
            IN  IF tc_func \notin DOMAIN FUNCTION_SIG THEN
                    [ok |-> FALSE, testcase |-> testcase]
                ELSE
                    LET slug == tc_func_slug(FUNCTION_SIG[tc_func])
                        real_addr == IF address \in DOMAIN ADDR_CODE_ADDR
                                     THEN ADDR_CODE_ADDR[address] ELSE address
                        key == <<real_addr, slug>>
                        score == IF key \in DOMAIN sig_to_score THEN sig_to_score[key] ELSE 1
                    IN  [ok |-> TRUE, testcase |-> [testcase EXCEPT !.lines = {score}]]

\* ---------------------------------------------------------------- the state
VARIABLES
    corpus,                          \* the host corpus: testcases in insertion order
    current,                         \* corpus().current(): the selected id or NoId
    branch_status,                   \* UncoveredBranchesMetadata.branch_status
    branch_to_testcases,             \* UncoveredBranchesMetadata.branch_to_testcases
    testcase_to_uncovered_branches,  \* UncoveredBranchesMetadata.testcase_to_uncovered_branches
    BRANCH_STATUS,                   \* the host's first BRANCH_STATUS_IDX branch events
    call,                            \* the last scheduler call: [op, idx, ret]
    reference,                       \* the selection of the reference run (see RefCorpus)
    file,                            \* the score file parse_sig_to_score reads, as an Option
    laps,                            \* history: what next() returned since it last returned each id
    signature,                       \* the text FUNCTION_SIG holds for a selector, as an Option
    pair                             \* the swap simulation: new reserves, and slot 8 of the pair

vars == <<corpus, current, branch_status, branch_to_testcases,
          testcase_to_uncovered_branches, BRANCH_STATUS, call, reference,
          file, laps, signature, pair>>

ledger == <<branch_status, branch_to_testcases, testcase_to_uncovered_branches>>

Ids == 1..Len(corpus)

panicked == call.ret = "panic"

\* Testcase::new(input): no parent, no metadata.
new_testcase(input) == [input |-> input, parent_id |-> NoId, lines |-> {}]

\* ------------------------------------------------------- on_add (214-292)
\* Lines 254-263: every credited testcase but idx loses one uncovered branch
\* (0 - 1 wraps: the residue -1 is usize::MAX); one without a record gets 0.
\* Faulty retirements: one that forgets the decrement, one that decrements
\* every recorded testcase.
retire_credit_skip(counts, tcs, idx) == counts

retire_credit_all(counts, tcs, idx) ==
    [t \in DOMAIN counts \cup (tcs \ {idx}) |->
        IF t \in DOMAIN counts THEN counts[t] - 1 ELSE 0]

\* (retire_credit_raised: a retirement that adds 1 where the code subtracts 1.)
retire_credit_raised(counts, tcs, idx) ==
    [t \in DOMAIN counts \cup (tcs \ {idx}) |->
        IF t \in tcs \ {idx}
        THEN (IF t \in DOMAIN counts THEN counts[t] + 1 ELSE 0)
        ELSE counts[t]]

retire_credit(counts, tcs, idx) ==
    [t \in DOMAIN counts \cup (tcs \ {idx}) |->
        IF t \in tcs \ {idx}
        THEN (IF t \in DOMAIN counts THEN counts[t] - 1 ELSE 0)
        ELSE counts[t]]

\* Line 261: `*e -= 1` meets a 0. A build with overflow checks panics there.
decrement_overflows(counts, tcs, idx) ==
    \E t \in tcs \ {idx} : t \in DOMAIN counts /\ counts[t] = 0

\* Lines 267 and 278: entry((addr, pc)).or_default().insert(idx).
\* (credit_dropped: no insertion at all.)
credit_dropped(btt, b, idx) == btt

credit(btt, b, idx) ==
    Put(btt, b, (IF b \in DOMAIN btt THEN btt[b] ELSE {}) \cup {idx})

\* Lines 240-242: the branch has been handled earlier in this call.
\* (never_fullfilled: a loop without that test.)
never_fullfilled(m, b) == FALSE

already_fullfilled(m, b) == b \in m.fullfilled

\* One iteration of the loop of lines 238-285 over the ledger m. m.failed: an
\* assert_eq!/expect of lines 250-253 has fired. m.overflowed: a decrement has
\* met a 0.
on_add_event(m, idx, ev) ==
    LET b == <<ev[1], ev[2]>>
        br == ev[3]
    IN  IF m.failed \/ already_fullfilled(m, b) THEN m
        ELSE IF b \in DOMAIN m.branch_status THEN
            LET r == merge(m.branch_status[b], br)
                new_v == r[1]
                is_updated == r[2]
            IN  IF is_updated THEN
                    IF new_v # "Both" \/ b \notin DOMAIN m.branch_to_testcases THEN
                        [m EXCEPT !.failed = TRUE]
                    ELSE
                        [m EXCEPT
                            !.overflowed =
                                @ \/ decrement_overflows(m.testcase_to_uncovered_branches,
                                                         m.branch_to_testcases[b], idx),
                            !.testcase_to_uncovered_branches =
                                retire_credit(@, m.branch_to_testcases[b], idx),
                            !.branch_to_testcases = Remove(@, b),
                            !.branch_status = Put(@, b, new_v),
                            !.fullfilled = @ \cup {b}]
                ELSE
                    [m EXCEPT
                        !.branch_to_testcases = credit(@, b, idx),
                        !.uncovered_counters = @ + 1,
                        !.branch_status = Put(@, b, new_v),
                        !.fullfilled = @ \cup {b}]
        ELSE
            [m EXCEPT
                !.branch_status = Put(@, b, from(br)),
                !.branch_to_testcases = credit(@, b, idx),
                !.uncovered_counters = @ + 1,
                !.fullfilled = @ \cup {b}]

RECURSIVE on_add_events(_, _, _)
on_add_events(m, idx, evs) ==
    IF evs = <<>> THEN m
    ELSE on_add_events(on_add_event(m, idx, Head(evs)), idx, Tail(evs))

\* Line 288: insert(idx, uncovered_counters) replaces the record of idx.
\* (store_count_keep: an insert that keeps a record it finds.)
store_count_keep(counts, idx, uncovered_counters) ==
    IF idx \in DOMAIN counts THEN counts ELSE Put(counts, idx, uncovered_counters)

\* (store_count_zero: an insert of 0 whatever the loop has counted.)
store_count_zero(counts, idx, uncovered_counters) == Put(counts, idx, 0)

store_count(counts, idx, uncovered_counters) == Put(counts, idx, uncovered_counters)

\* Lines 231-289: the ledger after on_add(idx) has read the events evs.
on_add_ledger(bs, btt, counts, idx, evs) ==
    LET m0 == [branch_status |-> bs,
               branch_to_testcases |-> btt,
               testcase_to_uncovered_branches |-> counts,
               uncovered_counters |-> 0,
               fullfilled |-> {},
               failed |-> FALSE,
               overflowed |-> FALSE]
        m == on_add_events(m0, idx, evs)
    IN  [m EXCEPT !.testcase_to_uncovered_branches = store_count(@, idx, m.uncovered_counters)]

\* Lines 216-228: the parent id and the ABI metadata of the admitted testcase.
\* (on_add_testcase_orphan: the same without the parent id.)
on_add_testcase_orphan(testcase, current_idx) ==
    LET t == [testcase EXCEPT !.parent_id = NoId]
    IN  IF ~t.input.step THEN add_abi_metadata(t)
        ELSE [ok |-> TRUE, testcase |-> [t EXCEPT !.lines = {1}]]

on_add_testcase(testcase, current_idx) ==
    LET t == [testcase EXCEPT !.parent_id = current_idx]
    IN  IF ~t.input.step THEN add_abi_metadata(t)
        ELSE [ok |-> TRUE, testcase |-> [t EXCEPT !.lines = {1}]]

\* on_add(idx) on a corpus c that holds idx. A panic ends the process: the
\* variables keep what the handler had written before its first loop iteration.
\* Whether a decrement of 0 panics or wraps is the build's choice.
on_add(c, idx) ==
    LET a == on_add_testcase(c[idx], current)
        m == on_add_ledger(branch_status, branch_to_testcases,
                           testcase_to_uncovered_branches, idx, BRANCH_STATUS)
    IN  /\ corpus' = [c EXCEPT ![idx] = a.testcase]
        /\ UNCHANGED <<current, reference, file, laps, signature, pair>>
        /\ \E overflow_checks \in (IF a.ok /\ m.overflowed THEN BOOLEAN ELSE {FALSE}) :
              IF a.ok /\ ~m.failed /\ ~overflow_checks THEN
                  /\ branch_status' = m.branch_status
                  /\ branch_to_testcases' = m.branch_to_testcases
                  /\ testcase_to_uncovered_branches' = m.testcase_to_uncovered_branches
                  /\ call' = [op |-> "on_add", idx |-> idx, ret |-> "Ok"]
              ELSE
                  /\ UNCHANGED ledger
                  /\ call' = [op |-> "on_add", idx |-> idx, ret |-> "panic"]

\* The host runs an input and leaves its branch events in BRANCH_STATUS. A run
\* whose input is not admitted leaves no other trace and is not modelled.
ExecuteWithin(max) ==
    /\ ~panicked
    /\ Len(corpus) < max
    /\ BRANCH_STATUS = <<>>
    /\ \E evs \in EventSeqs : BRANCH_STATUS' = evs
    /\ UNCHANGED <<corpus, current, ledger, call, reference, file, laps, signature, pair>>

Execute == ExecuteWithin(MaxEntries)

\* The same for runs that report at most one branch event.
BriefEventSeqs == {evs \in EventSeqs : Len(evs) <= 1}

ExecuteBrief(max) ==
    /\ ~panicked
    /\ Len(corpus) < max
    /\ BRANCH_STATUS = <<>>
    /\ \E evs \in BriefEventSeqs : BRANCH_STATUS' = evs
    /\ UNCHANGED <<corpus, current, ledger, call, reference, file, laps, signature, pair>>

\* The fuzzer finds the input it ran interesting, adds it to the corpus and
\* calls on_add with the new id. BRANCH_STATUS is next read after the next run
\* has rewritten it, so the step that read it leaves it rewound.
OnAddOf(inputs, max) ==
    /\ ~panicked
    /\ Len(corpus) < max
    /\ \E input \in inputs :
          on_add(Append(corpus, new_testcase(input)), Len(corpus) + 1)
    /\ BRANCH_STATUS' = <<>>

OnAdd == OnAddOf(Inputs, MaxEntries)

\* The same step of a campaign whose inputs all carry no ABI data.
PlainInputs == {i \in Inputs : i.data_abi = {}}

OnAddPlain == OnAddOf(PlainInputs, MaxEntries)

\* A host that calls on_add again with an id it has admitted before, after
\* another run: the Scheduler trait takes any id of the corpus.
ReAdd ==
    /\ ~panicked
    /\ Len(corpus) < MaxReadmitEntries
    /\ \E idx \in Ids : on_add(corpus, idx)
    /\ BRANCH_STATUS' = <<>>

\* ------------------------------------------------------- next (294-307)
\* Corpus::next and Corpus::first of a corpus c, as Options.
corpus_next_in(c, id) == IF id < Len(c) THEN {id + 1} ELSE {}

corpus_first_in(c) == IF Len(c) > 0 THEN {1} ELSE {}

corpus_next(id) == corpus_next_in(corpus, id)

corpus_first == corpus_first_in(corpus)

\* Line 295: state.corpus().count() == 0.
\* (corpus_is_empty_never: a next without that test.)
corpus_is_empty_never(c) == FALSE

corpus_is_empty(c) == Len(c) = 0

\* Faulty selections: one that restarts at the first entry whatever the current
\* selection is, one that picks the entry of greatest weight.
next_of_first(c, cur) == corpus_first_in(c)

next_of_heaviest(c, cur) ==
    {id \in 1..Len(c) : \A other \in 1..Len(c) :
        \/ c[other].lines = {}
        \/ (c[id].lines # {} /\
            \/ (CHOOSE n \in c[id].lines : TRUE) > (CHOOSE n \in c[other].lines : TRUE)
            \/ ((CHOOSE n \in c[id].lines : TRUE) = (CHOOSE n \in c[other].lines : TRUE)
                /\ id <= other))}

\* (next_of_paired: a selection that wraps once it has passed the second entry.)
next_of_paired(c, cur) ==
    IF cur = 1 /\ Len(c) >= 2 THEN {2} ELSE corpus_first_in(c)

\* Lines 298-303 before the unwrap: the successor of the current selection, or
\* the first id, as an Option.
next_of(c, cur) ==
    LET succ == IF cur = NoId THEN {} ELSE corpus_next_in(c, cur)
    IN  IF succ # {} THEN succ ELSE corpus_first_in(c)

next_id == CHOOSE id \in next_of(corpus, current) : TRUE

\* The reference run: the same calls with the same inputs, under an empty score
\* table (line 196: every weight is 1) and a host that reports no branch event
\* (its ledger stays empty). Its corpus follows from the corpus of this run;
\* its selection is the variable reference, moved by the same next().
RefCorpus == [i \in 1..Len(corpus) |->
                 [corpus[i] EXCEPT !.lines = IF @ = {} THEN {} ELSE {1}]]

next_call ==
    /\ ~panicked
    /\ IF corpus_is_empty(corpus) THEN
           /\ call' = [op |-> "next", idx |-> NoId, ret |-> "Err"]
           /\ UNCHANGED <<current, reference>>
       ELSE IF next_of(corpus, current) = {} \/ next_of(RefCorpus, reference) = {} THEN
           /\ call' = [op |-> "next", idx |-> NoId, ret |-> "panic"]
           /\ UNCHANGED <<current, reference>>
       ELSE
           /\ current' = next_id
           /\ reference' = (CHOOSE id \in next_of(RefCorpus, reference) : TRUE)
           /\ call' = [op |-> "next", idx |-> next_id, ret |-> "Ok"]
    /\ UNCHANGED <<corpus, ledger, BRANCH_STATUS, file, signature, pair>>

SchedNext == next_call /\ UNCHANGED laps

\* The same call with its history kept. laps[e] is written when next()
\* returns e: present is the set of ids the corpus holds at that return, seen
\* is the sequence of ids next() has returned since. A lap that has grown
\* longer than the corpus is no longer extended.
lap_of(c) == [present |-> 1..Len(c), seen |-> <<>>]

laps_after(c, history, returned) ==
    [e \in DOMAIN history \cup {returned} |->
        IF e = returned THEN lap_of(c)
        ELSE IF Len(history[e].seen) <= Len(c)
             THEN [history[e] EXCEPT !.seen = Append(@, returned)]
             ELSE history[e]]

SchedNextTraced ==
    /\ next_call
    /\ laps' = IF call'.ret = "Ok" THEN laps_after(corpus, laps, call'.idx) ELSE laps

\* ------------------------------------------ on_remove, on_replace (310-331)
\* Both handlers return Ok(()) and touch nothing; the host's own removal or
\* replacement of the testcase in the corpus is not part of them.
\* (on_remove_purging: an on_remove that takes the entry out of the ledger.)
on_remove_purging(idx) ==
    /\ branch_to_testcases' =
          [b \in DOMAIN branch_to_testcases |-> branch_to_testcases[b] \ {idx}]
    /\ testcase_to_uncovered_branches' = Remove(testcase_to_uncovered_branches, idx)
    /\ call' = [op |-> "on_remove", idx |-> idx, ret |-> "Ok"]
    /\ UNCHANGED <<corpus, current, branch_status, BRANCH_STATUS, reference, file, laps, signature, pair>>

on_remove(idx) ==
    /\ call' = [op |-> "on_remove", idx |-> idx, ret |-> "Ok"]
    /\ UNCHANGED <<corpus, current, ledger, BRANCH_STATUS, reference, file, laps, signature, pair>>

on_replace(idx) ==
    /\ call' = [op |-> "on_replace", idx |-> idx, ret |-> "Ok"]
    /\ UNCHANGED <<corpus, current, ledger, BRANCH_STATUS, reference, file, laps, signature, pair>>

OnRemove == ~panicked /\ \E idx \in Ids : on_remove(idx)

OnReplace == ~panicked /\ \E idx \in Ids : on_replace(idx)

\* ------------------------------------------- on_add_artifacts (350-360)
\* (on_add_artifacts_counted: the same, storing a count of 0 for idx.)
on_add_artifacts_counted(c, idx) ==
    LET a == add_abi_metadata([c[idx] EXCEPT !.parent_id = NoId])
    IN  /\ corpus' = [c EXCEPT ![idx] = a.testcase]
        /\ call' = [op |-> "on_add_artifacts", idx |-> idx,
                    ret |-> IF a.ok THEN "Ok" ELSE "panic"]
        /\ testcase_to_uncovered_branches' = Put(testcase_to_uncovered_branches, idx, 0)
        /\ UNCHANGED <<current, branch_status, branch_to_testcases, BRANCH_STATUS,
                       reference, file, laps, signature, pair>>

on_add_artifacts(c, idx) ==
    LET a == add_abi_metadata([c[idx] EXCEPT !.parent_id = NoId])
    IN  /\ corpus' = [c EXCEPT ![idx] = a.testcase]
        /\ call' = [op |-> "on_add_artifacts", idx |-> idx,
                    ret |-> IF a.ok THEN "Ok" ELSE "panic"]
        /\ UNCHANGED <<current, ledger, BRANCH_STATUS, reference, file, laps, signature, pair>>

\* The corpus initializer adds an initial testcase and calls on_add_artifacts.
\* An initial testcase is built from the artifacts, before any run: it is not a
\* step input, which resumes a run that was suspended.
InitialInputs == {i \in Inputs : ~i.step}

OnAddArtifactsOf(inputs, max) ==
    /\ ~panicked
    /\ Len(corpus) < max
    /\ \E input \in inputs :
          on_add_artifacts(Append(corpus, new_testcase(input)), Len(corpus) + 1)

OnAddArtifacts == OnAddArtifactsOf(InitialInputs, MaxEntries)

\* ------------------------------------------------------- compute (374-396)
\* The f64 power of lines 385-395 from the two usize operands. A residue below
\* 0 is a usize of at least 2^63, whose product with 16.0 is far above 3200.0.
\* (power_of_unfloored: the same without the test of lines 391-393.)
power_of_unfloored(uncov_branch, num_lines) ==
    LET huge == uncov_branch < 0 \/ num_lines < 0
        power0 == IF huge THEN 3200 ELSE uncov_branch * 16 + num_lines * 16
    IN  IF huge \/ power0 >= 3200 THEN 3200 ELSE power0

power_of(uncov_branch, num_lines) ==
    LET huge == uncov_branch < 0 \/ num_lines < 0
        power0 == IF huge THEN 3200 ELSE uncov_branch * 16 + num_lines * 16
        power1 == IF huge \/ power0 >= 3200 THEN 3200 ELSE power0
        power2 == IF power1 <= 32 THEN 32 ELSE power1
    IN  power2

\* Lines 375-378: the weight compute reads from the entry.
\* (num_lines_of_absent_zero: the same with 0 for an entry without metadata.)
num_lines_of_absent_zero(entry) ==
    IF entry.lines # {} THEN CHOOSE n \in entry.lines : TRUE ELSE 0

num_lines_of(entry) == IF entry.lines # {} THEN CHOOSE n \in entry.lines : TRUE ELSE 1

\* Line 382 without its `+ 1`: the count compute reads from the ledger.
uncovered_of(counts, idx) == IF idx \in DOMAIN counts THEN counts[idx] ELSE 0

\* (compute_bare: a compute that leaves out the `+ 1` of line 382.)
compute_bare(counts, entry, idx, overflow_checks) ==
    [ok |-> TRUE, power |-> power_of(uncovered_of(counts, idx), num_lines_of(entry))]

\* `count + 1` on usize::MAX: a panic with overflow checks, a wrap to 0 without.
compute(counts, entry, idx, overflow_checks) ==
    LET n == uncovered_of(counts, idx)
    IN  IF n = -1 /\ overflow_checks THEN [ok |-> FALSE, power |-> 0]
        ELSE [ok |-> TRUE, power |-> power_of(n + 1, num_lines_of(entry))]

\* The mutational stage asks for the power of an entry of the corpus.
Compute ==
    /\ ~panicked
    /\ \E idx \in Ids, overflow_checks \in BOOLEAN :
          LET r == compute(testcase_to_uncovered_branches, corpus[idx], idx, overflow_checks)
          IN  call' = [op |-> "compute", idx |-> idx,
                       ret |-> IF r.ok THEN "Ok" ELSE "panic", power |-> r.power]
    /\ UNCHANGED <<corpus, current, ledger, BRANCH_STATUS, reference, file, laps, signature, pair>>

\* --------------------------------------------- parse_sig_to_score (125-136)
\* Text is a sequence of one-character strings.
DecDigits == {"0", "1", "2", "3", "4", "5", "6", "7", "8", "9"}

HexDigits == DecDigits \cup {"a", "b", "c", "d", "e", "f", "A", "B", "C", "D", "E", "F"}

hex_value(c) ==
    CASE c \in DecDigits       -> (CHOOSE n \in 0..9 : ToDecimal(n) = <<c>>)
      [] c \in {"a", "A"}      -> 10
      [] c \in {"b", "B"}      -> 11
      [] c \in {"c", "C"}      -> 12
      [] c \in {"d", "D"}      -> 13
      [] c \in {"e", "E"}      -> 14
      [] c \in {"f", "F"}      -> 15

\* str::lines: the text between line feeds, each without the carriage return
\* that precedes its line feed; no line for the empty rest after the last one.
RECURSIVE str_lines(_)
str_lines(s) ==
    LET feeds == {i \in 1..Len(s) : s[i] = "\n"}
    IN  IF s = <<>> THEN <<>>
        ELSE IF feeds = {} THEN <<s>>
        ELSE LET i == CHOOSE j \in feeds : \A k \in feeds : j <= k
                 raw == SubSeq(s, 1, i - 1)
                 line == IF raw # <<>> /\ raw[Len(raw)] = "\r"
                         THEN SubSeq(raw, 1, Len(raw) - 1) ELSE raw
             IN  <<line>> \o str_lines(SubSeq(s, i + 1, Len(s)))

\* str::split(c), collected: the fields between the separators (one at least).
RECURSIVE str_split(_, _)
str_split(s, c) ==
    LET hits == {i \in 1..Len(s) : s[i] = c}
    IN  IF hits = {} THEN <<s>>
        ELSE LET i == CHOOSE j \in hits : \A k \in hits : j <= k
             IN  <<SubSeq(s, 1, i - 1)>> \o str_split(SubSeq(s, i + 1, Len(s)), c)

\* EVMAddress::from_str: an optional "0x", then the hexadecimal digits of 20
\* bytes in either case; the address is their values. An Option.
AddressDigits == 40

EVMAddress_from_str(s) ==
    LET body == IF Len(s) >= 2 /\ s[1] = "0" /\ s[2] = "x" THEN SubSeq(s, 3, Len(s)) ELSE s
    IN  IF Len(body) = AddressDigits /\ \A i \in 1..Len(body) : body[i] \in HexDigits
        THEN {[i \in 1..AddressDigits |-> hex_value(body[i])]}
        ELSE {}

\* str::parse::<usize>: an optional "+", then decimal digits, one at least,
\* whose value is at most usize::MAX. An Option. The value is computed for
\* texts of up to nine significant digits.
USIZE_MAX_TEXT ==
    <<"1", "8", "4", "4", "6", "7", "4", "4", "0", "7",
      "3", "7", "0", "9", "5", "5", "1", "6", "1", "5">>

RECURSIVE strip_zeros(_)
strip_zeros(s) == IF Len(s) > 1 /\ s[1] = "0" THEN strip_zeros(Tail(s)) ELSE s

RECURSIVE decimal_value(_)
decimal_value(s) ==
    IF s = <<>> THEN 0
    ELSE decimal_value(SubSeq(s, 1, Len(s) - 1)) * 10 + hex_value(s[Len(s)])

exceeds_usize(digits) ==
    \/ Len(digits) > Len(USIZE_MAX_TEXT)
    \/ /\ Len(digits) = Len(USIZE_MAX_TEXT)
       /\ \E i \in 1..Len(digits) :
             /\ hex_value(digits[i]) > hex_value(USIZE_MAX_TEXT[i])
             /\ \A j \in 1..(i - 1) : digits[j] = USIZE_MAX_TEXT[j]

usize_from_str(s) ==
    LET body == IF s # <<>> /\ s[1] = "+" THEN Tail(s) ELSE s
    IN  IF body = <<>> \/ \E i \in 1..Len(body) : body[i] \notin DecDigits THEN {}
        ELSE IF exceeds_usize(strip_zeros(body)) THEN {}
        ELSE {decimal_value(strip_zeros(body))}

\* Lines 129-134 for the lines left to read: [ok, table]; ok is FALSE when an
\* unwrap or expect of the line panics.
\* (load_lines_skipping: a loader that passes over the lines it cannot read.)
RECURSIVE load_lines_skipping(_, _)
load_lines_skipping(lines, sig_to_score_) ==
    IF lines = <<>> THEN [ok |-> TRUE, table |-> sig_to_score_]
    ELSE LET iter == str_split(Head(lines), ",")
             address == EVMAddress_from_str(iter[1])
             score == IF Len(iter) < 3 THEN {} ELSE usize_from_str(iter[3])
         IN  IF address = {} \/ Len(iter) < 2 \/ score = {}
             THEN load_lines_skipping(Tail(lines), sig_to_score_)
             ELSE load_lines_skipping(Tail(lines),
                      Put(sig_to_score_,
                          <<CHOOSE a \in address : TRUE, iter[2]>>,
                          CHOOSE n \in score : TRUE))

RECURSIVE load_lines(_, _)
load_lines(lines, sig_to_score_) ==
    IF lines = <<>> THEN [ok |-> TRUE, table |-> sig_to_score_]
    ELSE LET iter == str_split(Head(lines), ",")
             address == EVMAddress_from_str(iter[1])
             score == IF Len(iter) < 3 THEN {} ELSE usize_from_str(iter[3])
         IN  IF address = {} \/ Len(iter) < 2 \/ score = {}
             THEN [ok |-> FALSE, table |-> EmptyMap]
             ELSE load_lines(Tail(lines),
                      Put(sig_to_score_,
                          <<CHOOSE a \in address : TRUE, iter[2]>>,
                          CHOOSE n \in score : TRUE))

\* parse_sig_to_score(filename) on a file that holds content, or on none (the
\* unwrap of line 127 panics).
parse_sig_to_score(content) ==
    IF content = {} THEN [ok |-> FALSE, table |-> EmptyMap]
    ELSE load_lines(str_lines(CHOOSE text \in content : TRUE), EmptyMap)

\* The fuzzer loads the score table: the call record holds what was returned.
ParseSigToScore ==
    /\ ~panicked
    /\ LET r == parse_sig_to_score(file)
       IN  call' = [op |-> "parse_sig_to_score", idx |-> NoId,
                    ret |-> IF r.ok THEN "Ok" ELSE "panic",
                    table |-> IF r.ok THEN {r.table} ELSE {}]
    /\ UNCHANGED <<corpus, current, ledger, BRANCH_STATUS, reference, file, laps, signature, pair>>

\* ------------------------------------------------------------ specification
Init ==
    /\ corpus = <<>>
    /\ current = NoId
    /\ branch_status = EmptyMap
    /\ branch_to_testcases = EmptyMap
    /\ testcase_to_uncovered_branches = EmptyMap
    /\ BRANCH_STATUS = <<>>
    /\ call = [op |-> "new", idx |-> NoId, ret |-> "Ok"]
    /\ reference = NoId
    /\ file = {}
    /\ laps = EmptyMap
    /\ signature = {}
    /\ pair = NoPair

Next == Execute \/ OnAdd \/ SchedNext \/ OnAddArtifacts \/ OnRemove \/ OnReplace

Spec == Init /\ [][Next]_vars

\* A campaign of inputs without ABI data, none of them an initial artifact.
NextLedger == Execute \/ OnAddPlain \/ SchedNext

SpecLedger == Init /\ [][NextLedger]_vars

\* compute as a function of its operands: an entry with any sampled weight (or
\* no metadata) and a ledger with any sampled count for it (or no record).
\* The samples sit at 0, around the two clamps and far above them.
CountSamples == {0, 1, 2, 3, 100, 197, 198, 199, 200, 1000000}

LineSamples == {0, 1, 2, 3, 100, 197, 198, 199, 200, 1000000}

InitPower ==
    /\ \E lines \in {{}} \cup {{w} : w \in LineSamples} :
          corpus = <<[new_testcase(CHOOSE i \in PlainInputs : TRUE) EXCEPT !.lines = lines]>>
    /\ testcase_to_uncovered_branches \in
          {EmptyMap} \cup {(1 :> n) : n \in CountSamples}
    /\ current = NoId
    /\ branch_status = EmptyMap
    /\ branch_to_testcases = EmptyMap
    /\ BRANCH_STATUS = <<>>
    /\ call = [op |-> "new", idx |-> NoId, ret |-> "Ok"]
    /\ reference = NoId
    /\ file = {}
    /\ laps = EmptyMap
    /\ signature = {}
    /\ pair = NoPair

NextPower == Compute

SpecPower == InitPower /\ [][NextPower]_vars

\* Admissions alone, under a host that admits ids again.
NextReadmit ==
    \/ ExecuteWithin(MaxReadmitEntries)
    \/ OnAddOf(PlainInputs, MaxReadmitEntries)
    \/ ReAdd

SpecReadmit == Init /\ [][NextReadmit]_vars

\* ================================================================== claims
\* A step in which on_add(idx) has run to completion on the events evs.
AdmittedOk == call'.op = "on_add" /\ call'.ret = "Ok" /\ BRANCH_STATUS' = <<>>
                 /\ (corpus' # corpus \/ ledger' # ledger)

idx_ == call'.idx

evs_ == BRANCH_STATUS

BranchesOf(evs) == {<<evs[i][1], evs[i][2]>> : i \in 1..Len(evs)}

\* The direction of the first event of evs at branch b.
FirstDir(evs, b) ==
    LET at == {i \in 1..Len(evs) : <<evs[i][1], evs[i][2]>> = b}
    IN  evs[CHOOSE i \in at : \A j \in at : i <= j][3]

\* The branches this step takes from True or False to Both.
Completed ==
    {b \in DOMAIN branch_status :
        branch_status[b] \in {"True", "False"} /\ branch_status'[b] = "Both"}

\* The power of entry id in a build without overflow checks.
Power(counts, c, id) == compute(counts, c[id], id, FALSE).power

\* C1: a branch that is a key of branch_to_testcases does not have status Both.
C1_CreditedNotBoth ==
    \A b \in DOMAIN branch_to_testcases :
        b \in DOMAIN branch_status /\ branch_status[b] # "Both"

\* C2: when on_add(idx) takes a branch from True or False to Both, every entry
\* credited with it before, other than idx, loses exactly 1 per such branch,
\* and the branch leaves branch_to_testcases in the same step.
C2_Retirement ==
    [][AdmittedOk =>
        /\ \A b \in Completed : b \notin DOMAIN branch_to_testcases'
        /\ \A b \in Completed : \A e \in branch_to_testcases[b] \ {idx_} :
              /\ e \in DOMAIN testcase_to_uncovered_branches
              /\ e \in DOMAIN testcase_to_uncovered_branches'
              /\ testcase_to_uncovered_branches'[e] >= 0
              /\ testcase_to_uncovered_branches'[e] =
                    testcase_to_uncovered_branches[e]
                    - Cardinality({c \in Completed : e \in branch_to_testcases[c]})]_vars

\* Two entries credited with the same branch were both retired by entry 3,
\* one of them keeping its credit for the other branch.
C2_Witness ==
    /\ call = [op |-> "on_add", idx |-> 3, ret |-> "Ok"]
    /\ \E b \in Branches, c \in Branches :
          /\ b # c
          /\ branch_status = (b :> "Both" @@ c :> "True")
          /\ branch_to_testcases = (c :> {1})
          /\ testcase_to_uncovered_branches = (1 :> 1 @@ 2 :> 0 @@ 3 :> 0)

\* The scenario of C3: entry 1 alone is credited with b, seen true, and the
\* run admitted as entry 2 reports b false and no other branch.
C3_Scenario(b) ==
    /\ AdmittedOk
    /\ idx_ = 2
    /\ branch_status = (b :> "True")
    /\ branch_to_testcases = (b :> {1})
    /\ testcase_to_uncovered_branches = (1 :> 1)
    /\ BranchesOf(evs_) = {b}
    /\ ~FirstDir(evs_, b)
    /\ \A i \in 1..2 : corpus'[i].lines = {1}

\* C3 as stated: the completing entry 2 ends with count 1, powers 32 and 48.
C3_Original ==
    [][\A b \in Branches : C3_Scenario(b) =>
        /\ testcase_to_uncovered_branches'[2] = 1
        /\ Power(testcase_to_uncovered_branches', corpus', 1) = 32
        /\ Power(testcase_to_uncovered_branches', corpus', 2) = 48]_vars

\* C3 as amended: the completing entry 2 is not credited: both counts are 0
\* and both powers are 32.
C3_CompleterNotCredited ==
    [][\A b \in Branches : C3_Scenario(b) =>
        /\ testcase_to_uncovered_branches'[1] = 0
        /\ testcase_to_uncovered_branches'[2] = 0
        /\ b \notin DOMAIN branch_to_testcases'
        /\ Power(testcase_to_uncovered_branches', corpus', 1) = 32
        /\ Power(testcase_to_uncovered_branches', corpus', 2) = 32]_vars

C3_Witness ==
    /\ call = [op |-> "on_add", idx |-> 2, ret |-> "Ok"]
    /\ Len(corpus) = 2
    /\ \E b \in Branches : branch_status = (b :> "Both")
    /\ branch_to_testcases = EmptyMap
    /\ testcase_to_uncovered_branches = (1 :> 0 @@ 2 :> 0)
    /\ \A i \in 1..2 : corpus[i].lines = {1}

\* C4: with every id admitted once, no count is ever decremented below 0:
\* no build panics on the decrement and no count wraps.
C4_NoUnderflow ==
    /\ ~panicked
    /\ \A t \in DOMAIN testcase_to_uncovered_branches :
          testcase_to_uncovered_branches[t] >= 0

\* Entry 1 has been decremented from 2 to 0 by two completions.
C4_Witness ==
    /\ \A b \in Branches : b \in DOMAIN branch_status /\ branch_status[b] = "Both"
    /\ branch_to_testcases = EmptyMap
    /\ 1 \in DOMAIN testcase_to_uncovered_branches
    /\ testcase_to_uncovered_branches[1] = 0
    /\ Len(corpus) = 2

\* The merge table of C5: [status, flag] for a prior status (or none) and a
\* direction.
C5_Table(prior, dir) ==
    IF prior = "none" THEN <<IF dir THEN "True" ELSE "False", FALSE>>
    ELSE IF prior = "Both" THEN <<"Both", FALSE>>
    ELSE IF (prior = "True") = dir THEN <<prior, FALSE>>
    ELSE <<"Both", TRUE>>

\* C5: merge follows the table, its flag is true exactly when the result is
\* Both and the input was not, a branch without status gets the status of the
\* observed direction, and on_add stores the merged status of the first
\* observation of every branch it reads.
C5_MergeRule ==
    [][/\ \A s \in {"True", "False", "Both"}, d \in BOOLEAN :
             /\ merge(s, d) = C5_Table(s, d)
             /\ merge(s, d)[2] = (merge(s, d)[1] = "Both" /\ s # "Both")
       /\ \A d \in BOOLEAN : from(d) = C5_Table("none", d)[1]
       /\ AdmittedOk =>
             \A b \in BranchesOf(evs_) :
                 /\ b \in DOMAIN branch_status'
                 /\ branch_status'[b] =
                       C5_Table(IF b \in DOMAIN branch_status
                                THEN branch_status[b] ELSE "none",
                                FirstDir(evs_, b))[1]]_vars

\* All three statuses are in the ledger after an admission.
C5_Witness ==
    /\ call.op = "on_add"
    /\ \E b \in Branches, c \in Branches :
          /\ b \in DOMAIN branch_status /\ branch_status[b] = "Both"
          /\ c \in DOMAIN branch_status /\ branch_status[c] = "False"
    /\ Len(corpus) = 3

\* C6: a status only moves absent -> True/False -> Both: a branch with a
\* status keeps one, Both stays Both, True and False never swap.
C6_Monotonic ==
    [][\A b \in DOMAIN branch_status :
          /\ b \in DOMAIN branch_status'
          /\ (branch_status'[b] = branch_status[b] \/
              (branch_status[b] # "Both" /\ branch_status'[b] = "Both"))]_vars

\* A branch that is Both has been observed again by entry 3, with another
\* branch still at True.
C6_Witness ==
    /\ call = [op |-> "on_add", idx |-> 3, ret |-> "Ok"]
    /\ \E b \in Branches, c \in Branches :
          /\ b \in DOMAIN branch_status /\ branch_status[b] = "Both"
          /\ b \in DOMAIN branch_to_testcases /\ 3 \in branch_to_testcases[b]
          /\ c \in DOMAIN branch_status /\ branch_status[c] = "True"

\* Some branch occurs twice in evs with the same direction.
RepeatsSameWay(evs) ==
    \E i \in 1..Len(evs), j \in 1..Len(evs) : i < j /\ evs[i] = evs[j]

\* C7: an admission whose events repeat a branch with the same direction
\* counts every branch at most once: the stored count is the number of
\* branches that credit idx, at most the number of distinct branches read.
C7_SingleCredit ==
    [][(AdmittedOk /\ RepeatsSameWay(evs_)) =>
        /\ testcase_to_uncovered_branches'[idx_] <= Cardinality(BranchesOf(evs_))
        /\ testcase_to_uncovered_branches'[idx_] =
              Cardinality({b \in BranchesOf(evs_) :
                  b \in DOMAIN branch_to_testcases' /\ idx_ \in branch_to_testcases'[b]})]_vars

\* A run that took the same branch twice the same way is about to be admitted.
C7_Witness ==
    /\ ~panicked
    /\ Len(corpus) < MaxEntries
    /\ Len(BRANCH_STATUS) = 2
    /\ BRANCH_STATUS[1] = BRANCH_STATUS[2]

\* C8: when on_add(idx) completes, the count of idx is the number of distinct
\* branches of its events that had no credited entry before, or had some and
\* were not brought to Both by this call; it replaces any earlier count of
\* idx, and is 0 when there are no events.
C8_StoredCount ==
    [][AdmittedOk =>
        /\ idx_ \in DOMAIN testcase_to_uncovered_branches'
        /\ testcase_to_uncovered_branches'[idx_] =
              Cardinality({b \in BranchesOf(evs_) :
                  \/ b \notin DOMAIN branch_to_testcases
                  \/ (b \in DOMAIN branch_to_testcases /\ b \notin Completed)})
        /\ (evs_ = <<>> => testcase_to_uncovered_branches'[idx_] = 0)]_vars

\* Entry 1, admitted with a count of 2, is about to be admitted again after a
\* run that took a single branch.
C8_Witness ==
    /\ ~panicked
    /\ Len(corpus) = 1
    /\ call.op = "on_add"
    /\ testcase_to_uncovered_branches = (1 :> 2)
    /\ Len(BRANCH_STATUS) = 1

Clamp(x, lo, hi) == IF x < lo THEN lo ELSE IF x > hi THEN hi ELSE x

\* C9: the power of an entry is clamp(16 * (count + 1) + 16 * weight, 32,
\* 3200), count being the ledger's record of the id, or 0 without one, and
\* weight the entry's attached ABI weight.
C9_PowerFormula ==
    (call.op = "compute" /\ call.ret = "Ok" /\ corpus[call.idx].lines # {}) =>
        LET count == IF call.idx \in DOMAIN testcase_to_uncovered_branches
                     THEN testcase_to_uncovered_branches[call.idx] ELSE 0
            weight == CHOOSE w \in corpus[call.idx].lines : TRUE
        IN  call.power = Clamp(16 * (count + 1) + 16 * weight, 32, 3200)

\* compute has answered 48 for an entry of weight 2 without a record.
C9_Witness ==
    /\ call.op = "compute"
    /\ call.ret = "Ok"
    /\ testcase_to_uncovered_branches = EmptyMap
    /\ corpus[1].lines = {2}
    /\ call.power = 48

\* C10: every power compute returns lies in [32, 3200].
C10_PowerBounds ==
    (call.op = "compute" /\ call.ret = "Ok") => (call.power >= 32 /\ call.power <= 3200)

\* compute has answered 32 for weight 0 with count 0, where the sum is 16.
C10_Witness ==
    /\ call.op = "compute"
    /\ call.ret = "Ok"
    /\ corpus[1].lines = {0}
    /\ testcase_to_uncovered_branches = (1 :> 0)
    /\ call.power = 32

\* Entries of every kind on a small corpus: short runs, both admission paths
\* with any input, next().
NextAbi ==
    \/ ExecuteBrief(MaxAbiEntries)
    \/ OnAddOf(Inputs, MaxAbiEntries)
    \/ OnAddArtifactsOf(InitialInputs, MaxAbiEntries)
    \/ SchedNext

SpecAbi == Init /\ [][NextAbi]_vars

\* The removable scheduler on a small corpus: short runs, admissions of any
\* input, next(), on_remove and on_replace.
NextRemovable ==
    \/ ExecuteBrief(MaxAbiEntries)
    \/ OnAddOf(Inputs, MaxAbiEntries)
    \/ SchedNext
    \/ OnRemove
    \/ OnReplace

SpecRemovable == Init /\ [][NextRemovable]_vars

\* Score files: up to MaxScoreLines lines, each three fields drawn from the
\* samples below or one of five more (an empty line, a score of 2^64, one
\* field, two fields, four fields), joined by "\n" or
\* "\r\n", with or without a line ending after the last line; or no file.
Rep(c, n) == [i \in 1..n |-> c]

AddressTexts ==
    { Rep("a", AddressDigits),
      <<"0", "x">> \o Rep("A", AddressDigits),
      Rep("a", AddressDigits - 1),
      <<"0", "x">> \o Rep("g", AddressDigits) }

SlugTexts == { <<"f", "@", "2">>, <<"g", "@", "0">> }

ScoreTexts == { <<"2", "5", "0">>, <<"+", "7">>, <<"-", "1">> }

ScoreLines ==
    { a \o <<",">> \o g \o <<",">> \o n :
        a \in AddressTexts, g \in SlugTexts, n \in ScoreTexts }
    \cup { <<>>,
           Rep("b", AddressDigits) \o <<",", "f", "@", "2", ",">>
               \o <<"1", "8", "4", "4", "6", "7", "4", "4", "0", "7",
                    "3", "7", "0", "9", "5", "5", "1", "6", "1", "6">>,
           Rep("a", AddressDigits),
           Rep("a", AddressDigits) \o <<",", "f", "@", "2">>,
           Rep("a", AddressDigits) \o <<",", "f", "@", "2", ",", "3", ",", "x">> }

RECURSIVE join_lines(_, _)
join_lines(lines, ending) ==
    IF lines = <<>> THEN <<>>
    ELSE IF Len(lines) = 1 THEN Head(lines)
    ELSE Head(lines) \o ending \o join_lines(Tail(lines), ending)

ScoreFiles ==
    { join_lines(lines, ending) \o last :
        lines \in SeqsUpTo(ScoreLines, MaxScoreLines),
        ending \in {<<"\n">>, <<"\r", "\n">>},
        last \in {<<>>, <<"\n">>} }

InitLoad ==
    /\ file \in {{}} \cup {{text} : text \in ScoreFiles}
    /\ corpus = <<>>
    /\ current = NoId
    /\ branch_status = EmptyMap
    /\ branch_to_testcases = EmptyMap
    /\ testcase_to_uncovered_branches = EmptyMap
    /\ BRANCH_STATUS = <<>>
    /\ call = [op |-> "new", idx |-> NoId, ret |-> "Ok"]
    /\ reference = NoId
    /\ laps = EmptyMap
    /\ signature = {}
    /\ pair = NoPair

NextLoad == ParseSigToScore

SpecLoad == InitLoad /\ [][NextLoad]_vars

\* --------------------------------------------------------------- C11 .. C20
\* A step of next(): the call record names it, and neither the corpus nor the
\* host's events moved.
NextStep == call'.op = "next" /\ corpus' = corpus /\ BRANCH_STATUS' = BRANCH_STATUS

\* C11: on a non-empty corpus next() returns the insertion-order successor of
\* the current selection, or the first id when there is no selection or the
\* selection is the last id, and the returned id becomes the current selection
\* (so a corpus A, B, C is visited A, B, C, A).
C11_RoundRobin ==
    [][(NextStep /\ Len(corpus) > 0) =>
          /\ call'.ret = "Ok"
          /\ call'.idx = (IF current # NoId /\ current < Len(corpus)
                          THEN current + 1 ELSE 1)
          /\ current' = call'.idx]_vars

\* The third entry was admitted while the second was selected, and the
\* selection has since moved past the third back to the first.
C11_Witness ==
    /\ Len(corpus) = 3
    /\ corpus[3].parent_id = 2
    /\ current = 1
    /\ call = [op |-> "next", idx |-> 1, ret |-> "Ok"]

\* C12: on an empty corpus next() returns the empty-corpus error, never an id
\* and never a panic, and leaves the current selection and the ledger as they
\* were.
C12_EmptyCorpus ==
    [][(NextStep /\ Len(corpus) = 0) =>
          /\ call'.ret = "Err"
          /\ call'.idx = NoId
          /\ UNCHANGED <<current, ledger>>]_vars

C12_Witness ==
    /\ corpus = <<>>
    /\ call = [op |-> "next", idx |-> NoId, ret |-> "Err"]
    /\ current = NoId
    /\ branch_to_testcases = EmptyMap

\* C13: the ids next() returns do not depend on the branch events or on the
\* score table: a run and its reference run (same admissions and next() calls,
\* no branch event, empty score table) always hold the same selection, and
\* every next() returns the same id in both.
C13_SelectionIndependent ==
    /\ current = reference
    /\ (call.op = "next" /\ call.ret = "Ok") => call.idx = reference

\* next() has answered in a run whose entries have different weights and whose
\* ledger holds credit.
C13_Witness ==
    /\ call = [op |-> "next", idx |-> 2, ret |-> "Ok"]
    /\ reference = 2
    /\ Len(corpus) = 2
    /\ corpus[1].lines = {1}
    /\ corpus[2].lines = {250}
    /\ branch_to_testcases # EmptyMap

\* The inputs of the claims about weights, by kind.
StepInput == [contract |-> "0xP", data_abi |-> {"sel_f"}, step |-> TRUE]

BorrowInput == [contract |-> "0xAA", data_abi |-> {}, step |-> FALSE]

ProxyCall == [contract |-> "0xP", data_abi |-> {"sel_f"}, step |-> FALSE]

UnlistedCall == [contract |-> "0xBB", data_abi |-> {"sel_g"}, step |-> FALSE]

UnknownCall == [contract |-> "0xAA", data_abi |-> {"sel_x"}, step |-> FALSE]

\* The entry's function target and whether the signature table knows it.
HasTarget(input) == input.data_abi # {}

KnownSignature(input) == \A sel \in input.data_abi : sel \in DOMAIN FUNCTION_SIG

ResolvedAddress(input) ==
    IF input.contract \in DOMAIN ADDR_CODE_ADDR THEN ADDR_CODE_ADDR[input.contract]
    ELSE input.contract

\* The weight the claim gives an entry: 1 for a step entry or one without a
\* target, else the table's value at (resolved address, slug), or 1 without one.
ClaimedWeight(input) ==
    IF input.step \/ ~HasTarget(input) THEN 1
    ELSE LET sel == CHOOSE f \in input.data_abi : TRUE
             key == <<ResolvedAddress(input), tc_func_slug(FUNCTION_SIG[sel])>>
         IN  IF key \in DOMAIN sig_to_score THEN sig_to_score[key] ELSE 1

\* The admission of entry i ended in a panic.
FailedAdmission(i) == panicked /\ call.idx = i

\* C14: every admitted entry that is a step entry, has no function target, or
\* has a target of known signature carries the weight the claim states: the
\* score table's value at (resolved address, slug), 1 when the table has no
\* such key, and 1 for step entries and entries without a target.
C14_AbiWeight ==
    \A i \in Ids :
        (~FailedAdmission(i)
         /\ (corpus[i].input.step \/ KnownSignature(corpus[i].input)))
        => corpus[i].lines = {ClaimedWeight(corpus[i].input)}

\* on_add has admitted a step entry (weight 1 although its target scores 250)
\* and then a call through the proxy, weighted by the code address's score.
C14_Witness ==
    /\ Len(corpus) = 2
    /\ corpus[1].input = StepInput /\ corpus[1].lines = {1}
    /\ corpus[2].input = ProxyCall /\ corpus[2].lines = {250}
    /\ call = [op |-> "on_add", idx |-> 2, ret |-> "Ok"]

\* A step that admits a new entry (either path), and the entry it admits.
AdmissionStep == Len(corpus') = Len(corpus) + 1

admitted_ == corpus'[Len(corpus')]

C16_MissingMetadata ==
    (call.op = "compute" /\ corpus[call.idx].lines = {}) =>
        /\ call.ret = "Ok"
        /\ call.power = compute(testcase_to_uncovered_branches,
                                [corpus[call.idx] EXCEPT !.lines = {1}],
                                call.idx, TRUE).power
        /\ call.power = Clamp(16 * (uncovered_of(testcase_to_uncovered_branches,
                                                 call.idx) + 1) + 16, 32, 3200)

\* compute has answered 64 for an entry without metadata whose count is 2.
C16_Witness ==
    /\ call.op = "compute"
    /\ call.ret = "Ok"
    /\ corpus[1].lines = {}
    /\ testcase_to_uncovered_branches = (1 :> 2)
    /\ call.power = 64

\* A step of on_remove or on_replace.
RemovableStep ==
    /\ call'.op \in {"on_remove", "on_replace"}
    /\ BRANCH_STATUS' = BRANCH_STATUS

\* C17: on_remove and on_replace return success and leave the ledger, every
\* entry's weight and the current selection as they were; the entry named
\* stays in the sets that credit it and keeps its count.
C17_RemovableNoOps ==
    [][RemovableStep =>
          /\ call'.ret = "Ok"
          /\ UNCHANGED <<ledger, current>>
          /\ Len(corpus') = Len(corpus)
          /\ \A i \in Ids : corpus'[i].lines = corpus[i].lines]_vars

\* on_remove has returned for an entry that is still credited and counted,
\* with a selection made.
C17_Witness ==
    /\ call = [op |-> "on_remove", idx |-> 1, ret |-> "Ok"]
    /\ \E b \in DOMAIN branch_to_testcases : 1 \in branch_to_testcases[b]
    /\ 1 \in DOMAIN testcase_to_uncovered_branches
    /\ testcase_to_uncovered_branches[1] = 1
    /\ corpus[1].lines = {250}
    /\ current = 1

\* C18: on_add_artifacts(idx) leaves the entry without a parent and, unless
\* the signature lookup fails, with its ABI weight; the ledger (idx gets no
\* count record), the host's branch events, the current selection and every
\* other entry stay as they were.
C18_ArtifactsFrame ==
    [][(AdmissionStep /\ call'.op = "on_add_artifacts") =>
          /\ call'.idx = Len(corpus')
          /\ admitted_.parent_id = NoId
          /\ (call'.ret = "Ok" => admitted_.lines = {ClaimedWeight(admitted_.input)})
          /\ UNCHANGED <<ledger, BRANCH_STATUS, current>>
          /\ call'.idx \notin DOMAIN testcase_to_uncovered_branches'
          /\ \A i \in Ids : corpus'[i] = corpus[i]]_vars

\* on_add_artifacts has admitted a second entry while the host held branch
\* events, the ledger held credit and an entry was selected.
C18_Witness ==
    /\ call = [op |-> "on_add_artifacts", idx |-> 2, ret |-> "Ok"]
    /\ BRANCH_STATUS # <<>>
    /\ branch_to_testcases # EmptyMap
    /\ current = 1
    /\ corpus[2].parent_id = NoId
    /\ corpus[2].lines = {250}
    /\ DOMAIN testcase_to_uncovered_branches = {1}

\* C19: on_add(idx) stores as the entry's parent id the corpus's current
\* selection at the call (none when next() has not selected anything yet) and
\* leaves the current selection as it was.
C19_ParentIsCurrent ==
    [][(AdmissionStep /\ call'.op = "on_add") =>
          /\ call'.idx = Len(corpus')
          /\ admitted_.parent_id = current
          /\ current' = current]_vars

\* The first entry was admitted before any selection, the second after next()
\* had returned the first.
C19_Witness ==
    /\ Len(corpus) = 2
    /\ corpus[1].parent_id = NoId
    /\ corpus[2].parent_id = 1
    /\ current = 1
    /\ call = [op |-> "on_add", idx |-> 2, ret |-> "Ok"]

\* The lines of the score file and what each holds.
FileLines == IF file = {} THEN <<>> ELSE str_lines(CHOOSE text \in file : TRUE)

Fields(line) == str_split(line, ",")

WellFormed(line) ==
    /\ Len(Fields(line)) >= 3
    /\ EVMAddress_from_str(Fields(line)[1]) # {}
    /\ usize_from_str(Fields(line)[3]) # {}

KeyOf(line) ==
    <<CHOOSE a \in EVMAddress_from_str(Fields(line)[1]) : TRUE, Fields(line)[2]>>

ScoreOf(line) == CHOOSE n \in usize_from_str(Fields(line)[3]) : TRUE

\* C20: loading a score file with a line that lacks one of the three fields,
\* whose address does not parse or whose score does not parse as a
\* non-negative integer panics and returns no table, whatever lines precede
\* it; loading a file of well-formed lines returns a table whose keys are the
\* (address, slug) pairs of the lines, each mapped to the score a line gives it.
C20_FailFast ==
    (call.op = "parse_sig_to_score" /\ file # {}) =>
        IF \E i \in 1..Len(FileLines) : ~WellFormed(FileLines[i])
        THEN call.ret = "panic" /\ call.table = {}
        ELSE /\ call.ret = "Ok"
             /\ \E table \in call.table :
                   /\ DOMAIN table = {KeyOf(FileLines[i]) : i \in 1..Len(FileLines)}
                   /\ \A i \in 1..Len(FileLines) :
                         table[KeyOf(FileLines[i])] \in
                             {ScoreOf(FileLines[j]) :
                                 j \in {k \in 1..Len(FileLines) :
                                           KeyOf(FileLines[k]) = KeyOf(FileLines[i])}}

\* The load has failed on a file whose first line is well-formed and whose
\* second line has the score -1.
C20_Witness ==
    /\ file = {Rep("a", AddressDigits) \o <<",", "f", "@", "2", ",", "2", "5", "0">>
               \o <<"\n">>
               \o Rep("a", AddressDigits) \o <<",", "g", "@", "0", ",", "-", "1", "\n">>}
    /\ call = [op |-> "parse_sig_to_score", idx |-> NoId, ret |-> "panic", table |-> {}]

\* --------------------------------------------------------------- C21 .. C30
\* C21: a branch that is Both before on_add(idx) starts and is observed by the
\* admission gives idx no credit: idx does not enter its branch_to_testcases
\* set, and the count stored for idx counts no such branch.
C21_NoCreditAfterBoth ==
    [][AdmittedOk =>
        LET full == {b \in BranchesOf(evs_) :
                        b \in DOMAIN branch_status /\ branch_status[b] = "Both"}
        IN  /\ \A b \in full :
                  b \in DOMAIN branch_to_testcases' => idx_ \notin branch_to_testcases'[b]
            /\ testcase_to_uncovered_branches'[idx_]
                  <= Cardinality(BranchesOf(evs_) \ full)]_vars

\* Some branch occurs in evs first one way, later the other way.
RepeatsOtherWay(evs, b) ==
    \E i \in 1..Len(evs), j \in 1..Len(evs) :
        /\ i < j
        /\ <<evs[i][1], evs[i][2]>> = b /\ <<evs[j][1], evs[j][2]>> = b
        /\ evs[i][3] # evs[j][3]

\* The events of evs that are the first of their branch.
RECURSIVE FirstObservations(_, _)
FirstObservations(evs, seen) ==
    IF evs = <<>> THEN <<>>
    ELSE LET b == <<Head(evs)[1], Head(evs)[2]>>
         IN  IF b \in seen THEN FirstObservations(Tail(evs), seen)
             ELSE <<Head(evs)>> \o FirstObservations(Tail(evs), seen \cup {b})

\* C22: only the first event of a branch in one admission is applied: the
\* ledger on_add leaves is the one it leaves for the first observations alone,
\* and a branch without status that the run took both ways ends with the
\* status of the first direction, credited to idx and counted.
C22_FirstObservationOnly ==
    [][AdmittedOk =>
        /\ LET m == on_add_ledger(branch_status, branch_to_testcases,
                                  testcase_to_uncovered_branches, idx_,
                                  FirstObservations(evs_, {}))
           IN  /\ branch_status' = m.branch_status
               /\ branch_to_testcases' = m.branch_to_testcases
               /\ testcase_to_uncovered_branches' = m.testcase_to_uncovered_branches
        /\ \A b \in BranchesOf(evs_) :
              (b \notin DOMAIN branch_status /\ RepeatsOtherWay(evs_, b)) =>
                  /\ branch_status'[b] = from(FirstDir(evs_, b))
                  /\ b \in DOMAIN branch_to_testcases'
                  /\ idx_ \in branch_to_testcases'[b]
                  /\ testcase_to_uncovered_branches'[idx_] >= 1]_vars

\* A run that took a branch without status both ways is about to be admitted.
C22_Witness ==
    /\ ~panicked
    /\ Len(corpus) < MaxEntries
    /\ Len(BRANCH_STATUS) = 2
    /\ <<BRANCH_STATUS[1][1], BRANCH_STATUS[1][2]>> \notin DOMAIN branch_status
    /\ RepeatsOtherWay(BRANCH_STATUS, <<BRANCH_STATUS[1][1], BRANCH_STATUS[1][2]>>)

\* A step of on_add, completed or not.
OnAddStep == call'.op = "on_add" /\ BRANCH_STATUS' = <<>>

\* C23: the decrement of lines 255-263 is floored at 0: no on_add, a call for
\* an id admitted before included, fails on it, and an entry whose count is 0
\* keeps the count 0 through the retirement of a branch that credits it.
C23_DecrementFloored ==
    [][OnAddStep =>
        /\ call'.ret = "Ok"
        /\ \A e \in DOMAIN testcase_to_uncovered_branches \ {idx_} :
              testcase_to_uncovered_branches[e] = 0 =>
                  testcase_to_uncovered_branches'[e] = 0]_vars

\* C24: the assert_eq! and the expect of lines 250-253 cannot fire: a merge
\* that reports a completion returns Both, and every branch whose status is
\* True or False is a key of branch_to_testcases with a non-empty set, so the
\* set is there when a later merge completes the branch.
C24_AssertionsHold ==
    /\ \A s \in {"True", "False", "Both"}, d \in BOOLEAN :
          merge(s, d)[2] => merge(s, d)[1] = "Both"
    /\ \A b \in DOMAIN branch_status :
          branch_status[b] \in {"True", "False"} =>
              /\ b \in DOMAIN branch_to_testcases
              /\ branch_to_testcases[b] # {}

\* on_add(2) has completed one branch, found its set and retired it, while
\* the other branch is still half covered and credited.
C24_Witness ==
    /\ call = [op |-> "on_add", idx |-> 2, ret |-> "Ok"]
    /\ \E b \in Branches, c \in Branches :
          /\ branch_status = (b :> "Both" @@ c :> "False")
          /\ DOMAIN branch_to_testcases = {c}
          /\ branch_to_testcases[c] # {}

\* The branches on which entry e is credited.
CreditedOn(e) == {b \in DOMAIN branch_to_testcases : e \in branch_to_testcases[b]}

\* C25: with every id admitted once, the count of an admitted entry is the
\* number of branches whose set holds it, and every id held by a set has a
\* count, so that the or_insert(0) of line 262 is never the arm taken.
C25_CountIsCredit ==
    /\ DOMAIN testcase_to_uncovered_branches = Ids
    /\ \A e \in Ids :
          testcase_to_uncovered_branches[e] = Cardinality(CreditedOn(e))
    /\ \A b \in DOMAIN branch_to_testcases :
          branch_to_testcases[b] \subseteq DOMAIN testcase_to_uncovered_branches

\* Entry 1 has lost one of its two credits to a completion and shares the
\* other with entry 2.
C25_Witness ==
    /\ Len(corpus) >= 2
    /\ \E b \in DOMAIN branch_status : branch_status[b] = "Both"
    /\ \E b \in DOMAIN branch_to_testcases : {1, 2} \subseteq branch_to_testcases[b]
    /\ testcase_to_uncovered_branches[1] = 1
    /\ testcase_to_uncovered_branches[2] = 1

\* The branches this step reads an event of.
Observed == BranchesOf(evs_)

\* C26: on_add(idx) leaves the status and the set of every branch it has no
\* event of as they were, and the count of every entry other than idx that
\* was in no set of a branch this step takes to Both.
C26_AdmissionFrame ==
    [][OnAddStep =>
        /\ \A b \in Branches \ Observed :
              /\ (b \in DOMAIN branch_status') = (b \in DOMAIN branch_status)
              /\ b \in DOMAIN branch_status => branch_status'[b] = branch_status[b]
              /\ (b \in DOMAIN branch_to_testcases') = (b \in DOMAIN branch_to_testcases)
              /\ b \in DOMAIN branch_to_testcases =>
                    branch_to_testcases'[b] = branch_to_testcases[b]
        /\ \A e \in DOMAIN testcase_to_uncovered_branches \ {idx_} :
              (\A b \in Completed :
                  b \in DOMAIN branch_to_testcases => e \notin branch_to_testcases[b]) =>
                  /\ e \in DOMAIN testcase_to_uncovered_branches'
                  /\ testcase_to_uncovered_branches'[e] = testcase_to_uncovered_branches[e]]_vars

\* on_add(3) has brought one branch to Both; the other branch, which that
\* call had no event of, keeps its status False and its set {2}, and entry 2
\* keeps its count 1.
C26_Witness ==
    /\ call = [op |-> "on_add", idx |-> 3, ret |-> "Ok"]
    /\ \E b \in Branches, c \in Branches :
          /\ branch_status = (b :> "Both" @@ c :> "False")
          /\ branch_to_testcases = (c :> {2})
    /\ testcase_to_uncovered_branches = <<0, 1, 0>>

\* C27: with every id admitted once, no step of on_add, next, on_remove or
\* on_replace raises the power of an entry admitted before it: the entry
\* keeps its weight, and its count stays or goes down.
C27_PowerNeverRises ==
    [][\A e \in Ids :
          /\ e \in DOMAIN testcase_to_uncovered_branches'
          /\ corpus'[e].lines = corpus[e].lines
          /\ testcase_to_uncovered_branches'[e] <= testcase_to_uncovered_branches[e]
          /\ Power(testcase_to_uncovered_branches', corpus', e)
                <= Power(testcase_to_uncovered_branches, corpus, e)]_vars

\* Entry 1 was admitted with a credit and has lost it to the admission of
\* entry 2; next, on_remove or on_replace has run since.
C27_Witness ==
    /\ Len(corpus) = 2
    /\ call.op \in {"next", "on_remove", "on_replace"}
    /\ \E b \in DOMAIN branch_status : branch_status[b] = "Both"
    /\ testcase_to_uncovered_branches[1] = 0
    /\ testcase_to_uncovered_branches[2] = 0
    /\ Power(testcase_to_uncovered_branches, corpus, 1) < 3200

\* A campaign in which the fuzzing loop keeps calling next(): admissions of
\* inputs without ABI data, each after a run, interleaved in any way with
\* next(), and no removal. next() is always callable, and the loop of the
\* fuzzer calls it again after every round, hence the weak fairness.
NextFair ==
    \/ ExecuteBrief(MaxFairEntries)
    \/ OnAddOf(PlainInputs, MaxFairEntries)
    \/ SchedNextTraced

SpecFair == Init /\ [][NextFair]_vars /\ WF_vars(SchedNextTraced)

\* next() has just returned e.
Returned(e) == call = [op |-> "next", idx |-> e, ret |-> "Ok"]

\* How often id f occurs in the sequence seen.
Occurrences(seen, f) == Cardinality({i \in 1..Len(seen) : seen[i] = f})

\* C28: with entries appended and none removed, and next() called again and
\* again, every admitted entry is eventually returned by next(), however the
\* admissions are interleaved; and when next() returns an id it has returned
\* before, it has returned every other entry the corpus held at the earlier
\* return exactly once in between.
C28_NoStarvation ==
    /\ \A e \in 1..MaxFairEntries : (e \in Ids) ~> Returned(e)
    /\ [][(NextStep /\ call'.ret = "Ok" /\ idx_ \in DOMAIN laps) =>
             \A f \in laps[idx_].present \ {idx_} :
                 Occurrences(laps[idx_].seen, f) = 1]_vars

\* next() returned 2 when the corpus held entries 1 and 2; entry 3 was admitted
\* after that, and next() has returned 3 and then 1.
C28_Witness ==
    /\ Len(corpus) = 3
    /\ Returned(1)
    /\ 2 \in DOMAIN laps
    /\ laps[2] = [present |-> {1, 2}, seen |-> <<3, 1>>]

\* ------------------------------------------- tc_func_slug alone (179-189)
\* The signature texts FUNCTION_SIG can hold: a name and up to MaxArgs
\* argument types in parentheses, separated by commas. The types are two
\* elementary ones, an array, a tuple of two, and the empty tuple.
ArgTypes ==
    { <<"u">>, <<"a">>, <<"u", "[", "]">>, <<"(", "u", ",", "a", ")">>, <<"(", ")">> }

SignatureTexts ==
    { <<name, "(">> \o join_lines(types, <<",">>) \o <<")">> :
        name \in {"f", "g"}, types \in SeqsUpTo(ArgTypes, MaxArgs) }

InitSlug ==
    /\ signature \in {{text} : text \in SignatureTexts}
    /\ corpus = <<>>
    /\ current = NoId
    /\ branch_status = EmptyMap
    /\ branch_to_testcases = EmptyMap
    /\ testcase_to_uncovered_branches = EmptyMap
    /\ BRANCH_STATUS = <<>>
    /\ call = [op |-> "new", idx |-> NoId, ret |-> "Ok"]
    /\ reference = NoId
    /\ file = {}
    /\ laps = EmptyMap
    /\ pair = NoPair

\* Lines 179-189 for the signature text the lookup of line 171 has found.
TcFuncSlug ==
    /\ signature # {}
    /\ call' = [op |-> "tc_func_slug", idx |-> NoId, ret |-> "Ok",
                slug |-> tc_func_slug(CHOOSE text \in signature : TRUE)]
    /\ UNCHANGED <<corpus, current, ledger, BRANCH_STATUS, reference, file, laps, signature, pair>>

NextSlug == TcFuncSlug

SpecSlug == InitSlug /\ [][NextSlug]_vars

\* The nesting depth of position i of the text s: the parentheses opened and
\* not closed before it.
Depth(s, i) ==
    Cardinality({j \in 1..(i - 1) : s[j] = "("}) - Cardinality({j \in 1..(i - 1) : s[j] = ")"})

\* The number of arguments of the signature text s: none when the argument
\* list is empty, else one more than the commas that separate arguments.
ArgumentCount(s) ==
    LET open == CHOOSE i \in 1..Len(s) : s[i] = "(" /\ Depth(s, i) = 0
    IN  IF open + 1 = Len(s) THEN 0
        ELSE 1 + Cardinality({i \in 1..Len(s) : s[i] = "," /\ Depth(s, i) = 1})

SignatureText == CHOOSE text \in signature : TRUE

\* C29: the slug of a signature text name(t1,...,tn) is name@n, n being the
\* number of arguments, also when an argument type holds commas or empty
\* parentheses of its own.
C29_SlugCountsArguments ==
    call.op = "tc_func_slug" =>
        call.slug = split_first(SignatureText, "(") \o <<"@">>
                        \o ToDecimal(ArgumentCount(SignatureText))

\* ------------------------- reserve_parser, reserve_update (v2_transformer 55-67)
\* An EVMU256 is the sequence of its WordBytes bytes, least significant first
\* (ruint keeps the limbs of a Uint in that order).
WordBytes == 32

\* The width of a reserve in the slot: reserve_bytes[4..18] and [18..32].
ReserveBytes == 14

U256(low_bytes) == low_bytes \o Rep(0, WordBytes - Len(low_bytes))

\* Uint::to_be_bytes: the WordBytes bytes of the value, most significant first.
to_be_bytes(x) == [i \in 1..WordBytes |-> x[WordBytes + 1 - i]]

\* Uint::try_from_be_slice: the value of a big-endian slice of any length, as
\* an Option; None when a byte beyond the width of the Uint is not 0.
try_from_be_slice(bytes) ==
    LET n == Len(bytes)
        le == [i \in 1..n |-> bytes[n + 1 - i]]
    IN  IF \E i \in (WordBytes + 1)..n : le[i] # 0 THEN {}
        ELSE {[i \in 1..WordBytes |-> IF i <= n THEN le[i] ELSE 0]}

\* bytes[lo..hi] of Rust: positions counted from zero, hi excluded.
slice(bytes, lo, hi) == SubSeq(bytes, lo + 1, hi)

\* Lines 55-60. [ok, reserves]: ok is FALSE when an unwrap panics.
reserve_parser(reserve_slot) ==
    LET reserve_bytes == to_be_bytes(reserve_slot)
        reserve_0 == try_from_be_slice(slice(reserve_bytes, 4, 4 + ReserveBytes))
        reserve_1 == try_from_be_slice(slice(reserve_bytes, 4 + ReserveBytes, WordBytes))
    IN  IF reserve_0 = {} \/ reserve_1 = {} THEN [ok |-> FALSE, reserves |-> <<>>]
        ELSE [ok |-> TRUE,
              reserves |-> <<CHOOSE v \in reserve_0 : TRUE, CHOOSE v \in reserve_1 : TRUE>>]

\* Lines 62-67. [ok, slot]: ok is FALSE when the unwrap panics.
reserve_update(reserve_0, reserve_1) ==
    LET ret == Rep(0, 4) \o to_be_bytes(reserve_0) \o to_be_bytes(reserve_1)
        slot == try_from_be_slice(ret)
    IN  [ok |-> slot # {}, slot |-> slot]

\* Reserves that fit in 112 bits: 0, 1, 255, 256, 0x1234, 2^104 + 1, 2^111
\* and 2^112 - 1.
ReserveSamples ==
    { U256(<<>>), U256(<<1>>), U256(<<255>>), U256(<<0, 1>>), U256(<<52, 18>>),
      U256(<<1>> \o Rep(0, ReserveBytes - 2) \o <<1>>),
      U256(Rep(0, ReserveBytes - 1) \o <<128>>),
      U256(Rep(255, ReserveBytes)) }

\* Step 4 of transform has computed the new reserves of a pair whose slot 8
\* is about to be written.
InitReserve ==
    /\ \E r0 \in ReserveSamples, r1 \in ReserveSamples :
          pair = [new_reserve_0 |-> r0, new_reserve_1 |-> r1, slot |-> {}]
    /\ corpus = <<>>
    /\ current = NoId
    /\ branch_status = EmptyMap
    /\ branch_to_testcases = EmptyMap
    /\ testcase_to_uncovered_branches = EmptyMap
    /\ BRANCH_STATUS = <<>>
    /\ call = [op |-> "new", idx |-> NoId, ret |-> "Ok"]
    /\ reference = NoId
    /\ file = {}
    /\ laps = EmptyMap
    /\ signature = {}

\* Lines 210-216 of transform: the slot reserve_update builds is stored at
\* key 8 of the pair.
ReserveUpdate ==
    /\ ~panicked
    /\ pair # NoPair
    /\ pair.slot = {}
    /\ LET r == reserve_update(pair.new_reserve_0, pair.new_reserve_1)
       IN  /\ pair' = [pair EXCEPT !.slot = r.slot]
           /\ call' = [op |-> "reserve_update", idx |-> NoId,
                       ret |-> IF r.ok THEN "Ok" ELSE "panic"]
    /\ UNCHANGED <<corpus, current, ledger, BRANCH_STATUS, reference, file, laps, signature>>

\* Lines 186-196 of the next transform on the pair: the slot is read back.
ReserveParser ==
    /\ ~panicked
    /\ pair.slot # {}
    /\ LET r == reserve_parser(CHOOSE v \in pair.slot : TRUE)
       IN  call' = [op |-> "reserve_parser", idx |-> NoId,
                    ret |-> IF r.ok THEN "Ok" ELSE "panic", reserves |-> r.reserves]
    /\ UNCHANGED <<corpus, current, ledger, BRANCH_STATUS, reference, file, laps, signature, pair>>

NextReserve == ReserveUpdate \/ ReserveParser

SpecReserve == InitReserve /\ [][NextReserve]_vars

\* C30: for reserves that each fit in 112 bits, reserve_update does not fail,
\* and reserve_parser gives back from the slot the two reserves it was built
\* from.
C30_ReserveRoundTrip ==
    /\ ~(call.op = "reserve_update" /\ call.ret = "panic")
    /\ call.op = "reserve_parser" =>
          /\ call.ret = "Ok"
          /\ call.reserves = <<pair.new_reserve_0, pair.new_reserve_1>>

====
